---- MODULE Spec2Model ----
(***************************************************************************)
(* The conversation orchestration engine of lic-sales-agent:               *)
(* ConversationService.process_message / end_conversation over the Redis   *)
(* session store, the conversation record, the LLM provider, the Retry     *)
(* service, the Response Filter and the Fallback service.                  *)
(*                                                                         *)
(* One session is modelled.  A text is a sequence of phrases; a phrase is  *)
(* a piece of text that the keyword and regex tests of the code see as a   *)
(* whole.  Keywords(p) lists the keywords of the source's keyword lists    *)
(* that occur in the lower-cased phrase, so that `kw in text.lower()` of   *)
(* the code is Has(text, kw).                                              *)
(***************************************************************************)
EXTENDS Integers, Sequences, FiniteSets, TLC

\* ------------------------------------------------------------------ bounds
MaxTurns == 2          \* process_message calls in one behaviour
LoadedTurns == 1       \* of them, on a session found in the store
ConfirmTurns == 2      \* of them, on a session that awaits confirmation
MaxFilterLen == 2      \* phrases in a text given to the Response Filter
MaxHistory == 60       \* messages in a history given to the Context Assembler
MaxAttempts == 5
NumCallers == 2          \* concurrent check_limit calls for one key
MaxCalls == 4            \* check_limit calls made in all
LimitOfType == 2         \* max_requests of the limit type of the model
MaxFailures == 9         \* requests the LLM backend fails in a row       \* the largest max_attempts of a RetryConfig, and the
                       \* most attempts on which an operation fails

\* ------------------------------------------------------- program constants
max_attempts == 3
provider_max_attempts == 3      \* RetryConfig(max_attempts=3, ...)
RecentLimit == 5       \* _get_recent_messages(conv_id, limit=5)
ShortMessage == 10     \* len(message.strip()) < 10
RefinedMin == 10       \* len(refined) > 10
RecentWindow == 3      \* recent_messages[-3:]
MAX_CONTEXT_MESSAGES == 50
MAX_CONTEXT_TOKENS == 8000
KeepRecent == 30       \* messages[-30:]
CharsPerToken == 4     \* total_chars // 4

\* ------------------------------------------------------------------- enums
ConversationStage ==
  {"introduction", "qualification", "information", "persuasion",
   "objection_handling", "information_collection", "closing", "ended"}

InterestLevel == {"none", "low", "medium", "high"}

\* None < Low < Medium < High
InterestRank(level) ==
  CASE level = "none" -> 0 [] level = "low" -> 1 [] level = "medium" -> 2
    [] level = "high" -> 3

Intent ==
  {"greeting", "question", "objection", "interest", "exit",
   "information_request", "policy_comparison", "unknown"}

None == "None"         \* Python's None, and the empty string, for a field

\* ------------------------------------------------------------------- texts
\* What the customer may send (already sanitized: one phrase each).
UserPhrases ==
  {"hello", "not interested", "no thanks", "bye for today", "yes",
   "the phone number is wrong", "too expensive", "tell me more about that",
   "but I am not sure", "I'm 34 and want to protect my family"}

Whitespace == "  "

UserMessages == {<<p>> : p \in UserPhrases} \cup {<<Whitespace, "not interested", Whitespace>>}

\* What the LLM may return as content of generate_response.
LLMContents ==
  {<<>>, <<"guaranteed approval">>, <<"Happy to help.">>,
   <<"Are you interested in our coverage?">>}

\* The canned replies of the code, each one phrase (long ones cut at 67 characters).
welcome_generic_0 ==
  <<"Hello! I'm Alex, your AI life insurance advisor. I'm here to help y...">>
welcome_evening_0 ==
  <<"Good evening! I'm Alex, your AI life insurance advisor. Even though...">>
exit_message ==
  <<"Thank you for your time. Feel free to reach out if you have questio...">>
fb_introduction ==
  <<"Hello! I'm here to help you learn about life insurance. How can I a...">>
fb_qualification ==
  <<"I'd like to understand your needs better. Could you tell me a bit a...">>
fb_information ==
  <<"I can help you learn more about our life insurance options. Would y...">>
fb_persuasion ==
  <<"Life insurance is an important way to protect your loved ones and p...">>
fb_objection_handling ==
  <<"I understand your concerns. Life insurance can seem complex, but I'...">>
fb_information_collection ==
  <<"To help you get the best coverage, I'll need some basic information...">>
fb_closing ==
  <<"Based on what you've told me, I believe we can find a policy that m...">>
fb_ended ==
  <<"Thank you for your time. If you have any questions in the future, p...">>
db_error ==
  <<"I'm experiencing a temporary issue saving your information. Please ...">>
obj_cost ==
  <<"I completely understand that cost is important to you. Let me help ...">>
obj_necessity ==
  <<"I appreciate that perspective. Many people feel that way initially....">>
obj_complexity ==
  <<"I totally get that - insurance can seem complicated at first! But i...">>
obj_trust ==
  <<"That's a very valid concern, and I'm glad you're asking. Let me add...">>
obj_timing ==
  <<"I understand wanting to think it over - that's a smart approach to ...">>
obj_comparison ==
  <<"I appreciate you doing your research - that's exactly the right app...">>
ask_name ==
  <<"Could you please provide your full name?">>
ask_phone ==
  <<"Could you please provide your phone number?">>
ask_nid ==
  <<"Could you please provide your National ID?">>
ask_address ==
  <<"Could you please provide your address?">>
ask_policy ==
  <<"Which policy are you interested in?">>
summary_text ==
  <<"Here's a summary of the information I've collected: **Full Name:** ...">>
saved_reply ==
  <<"Thank you for confirming! Your information has been saved. Our team...">>
saved_ok_reply ==
  <<"Thank you for confirming! Your information has been saved successfu...">>
corr_ask ==
  <<"I'll help you correct that. Could you please provide your correct p...">>
corr_updated_summary ==
  <<"I've updated your phone number. Here's a summary of the information...">>

corr_updated ==
  <<"I've updated your phone number. Thank you! Let me continue collecti...">>

corr_which ==
  <<"Could you please tell me which information needs to be corrected? F...">>
unclear_directive ==
  <<"I want to make sure I understand. Please reply with 'Yes' if the in...">>
unclear_plain ==
  <<"Could you please confirm? Reply 'Yes' if the information is correct...">>
cl_pron_ctx ==
  <<"I want to make sure I understand. Recent topics: policy, premium Co...">>
cl_vague_ctx ==
  <<"Of course! Recent topics: policy Would you like more details about ...">>
cl_contra ==
  <<"I understand you might have mixed feelings about this. Could you he...">>
cl_multi ==
  <<"I want to make sure I understand correctly. Could you please clarif...">>
cl_missing ==
  <<"I want to make sure I understand correctly. Could you please provid...">>
refusal_reply ==
  <<"I apologize, but I can't provide that type of information. Let me h...">>

\* The keywords of the source's lists that occur in the lower-cased phrase
\* (`kw in text.lower()`), computed from the full text of the phrase.
UserKeywords(t) ==
  CASE t = "hello" -> {"hello"}
    [] t = "not interested" -> {"interested", "no", "not", "not interested"}
    [] t = "no thanks" -> {"no", "no thanks"}
    [] t = "bye for today" -> {}
    [] t = "yes" -> {"yes"}
    [] t = "the phone number is wrong" -> {"phone", "phone number", "wrong"}
    [] t = "too expensive" -> {"expensive"}
    [] t = "tell me more about that" -> {"tell me"}
    [] t = "but I am not sure" -> {"no", "not"}
    [] t = "I'm 34 and want to protect my family" -> {"want"}
    [] OTHER -> {}

LLMKeywords(t) ==
  CASE t = "Happy to help." -> {}
    [] t = "Are you interested in our coverage?" -> {"coverage", "interested"}
    [] t = "guaranteed approval" -> {"guaranteed approval"}
    [] t = "Guaranteed Approval" -> {"guaranteed approval"}
    [] t = "no risk" -> {"no", "no risk"}
    [] t = "That would be discrimination." -> {"discrimination"}
    [] t = "I am human" -> {"human"}
    [] OTHER -> {}

CannedKeywords(t) ==
  CASE t = "Hello! I'm Alex, your AI life insurance advisor. I'm here to help y..." -> {"coverage", "insurance", "policy"}
    [] t = "Good evening! I'm Alex, your AI life insurance advisor. Even though..." -> {"insurance"}
    [] t = "Thank you for your time. Feel free to reach out if you have questio..." -> {}
    [] t = "Hello! I'm here to help you learn about life insurance. How can I a..." -> {"insurance"}
    [] t = "I'd like to understand your needs better. Could you tell me a bit a..." -> {"exam", "plan"}
    [] t = "I can help you learn more about our life insurance options. Would y..." -> {"insurance", "term", "term life", "whole life"}
    [] t = "Life insurance is an important way to protect your loved ones and p..." -> {"coverage", "insurance"}
    [] t = "I understand your concerns. Life insurance can seem complex, but I'..." -> {"insurance"}
    [] t = "To help you get the best coverage, I'll need some basic information..." -> {"coverage", "insurance"}
    [] t = "Based on what you've told me, I believe we can find a policy that m..." -> {"policy"}
    [] t = "Thank you for your time. If you have any questions in the future, p..." -> {}
    [] t = "I'm experiencing a temporary issue saving your information. Please ..." -> {}
    [] t = "I completely understand that cost is important to you. Let me help ..." -> {"cost", "coverage"}
    [] t = "I appreciate that perspective. Many people feel that way initially...." -> {"coverage", "health", "insurance", "premium"}
    [] t = "I totally get that - insurance can seem complicated at first! But i..." -> {"insurance", "want"}
    [] t = "That's a very valid concern, and I'm glad you're asking. Let me add..." -> {"human", "insurance"}
    [] t = "I understand wanting to think it over - that's a smart approach to ..." -> {"coverage", "health", "premium", "want"}
    [] t = "I appreciate you doing your research - that's exactly the right app..." -> {}
    [] t = "Could you please provide your full name?" -> {}
    [] t = "Could you please provide your phone number?" -> {}
    [] t = "Could you please provide your National ID?" -> {}
    [] t = "Could you please provide your address?" -> {}
    [] t = "Which policy are you interested in?" -> {"interested", "policy"}
    [] t = "Here's a summary of the information I've collected: **Full Name:** ..." -> {"policy"}
    [] t = "I've updated your phone number. Here's a summary of the information..." -> {"policy"}
    [] t = "Thank you for confirming! Your information has been saved. Our team..." -> {}
    [] t = "Thank you for confirming! Your information has been saved successfu..." -> {}
    [] t = "I'll help you correct that. Could you please provide your correct p..." -> {}
    [] t = "Could you please tell me which information needs to be corrected? F..." -> {"exam"}
    [] t = "I want to make sure I understand. Please reply with 'Yes' if the in..." -> {"want"}
    [] t = "Could you please confirm? Reply 'Yes' if the information is correct..." -> {}
    [] t = "I want to make sure I understand. Recent topics: policy, premium Co..." -> {"policy", "premium", "want"}
    [] t = "Of course! Recent topics: policy Would you like more details about ..." -> {"policy"}
    [] t = "I understand you might have mixed feelings about this. Could you he..." -> {"insurance"}
    [] t = "I want to make sure I understand correctly. Could you please clarif..." -> {"want"}
    [] t = "I want to make sure I understand correctly. Could you please provid..." -> {"want"}
    [] t = "I apologize, but I can't provide that type of information. Let me h..." -> {}
    [] OTHER -> {}

Keywords(t) ==
  IF t \in UserPhrases THEN UserKeywords(t) ELSE LLMKeywords(t) \cup CannedKeywords(t)

\* `kw in text.lower()`
Has(text, kw) == \E i \in DOMAIN text : kw \in Keywords(text[i])

\* any(kw in text.lower() for kw in kws)
HasAny(text, kws) == \E i \in DOMAIN text : Keywords(text[i]) \cap kws # {}

\* len(phrase): the real lengths of the inputs and of the LLM's contents.
PhraseLen(t) ==
  CASE t = "hello" -> 5
    [] t = "not interested" -> 14
    [] t = "no thanks" -> 9
    [] t = "yes" -> 3
    [] t = "the phone number is wrong" -> 25
    [] t = "bye for today" -> 13
    [] t = "too expensive" -> 13
    [] t = "tell me more about that" -> 23
    [] t = "but I am not sure" -> 17
    [] t = "I'm 34 and want to protect my family" -> 36
    [] t = "guaranteed approval" -> 19
    [] t = "Guaranteed Approval" -> 19
    [] t = "no risk" -> 7
    [] t = "That would be discrimination." -> 29
    [] t = "I am human" -> 10
    [] t = "Happy to help." -> 14
    [] t = "Are you interested in our coverage?" -> 35
    [] t = Whitespace -> 2
    [] OTHER -> 67

\* str.strip(), and " ".join(text.split()): whitespace phrases go.
Strip(text) == SelectSeq(text, LAMBDA p : p # Whitespace)

RECURSIVE SumLen(_)
SumLen(text) == IF text = <<>> THEN 0 ELSE PhraseLen(Head(text)) + 1 + SumLen(Tail(text))

\* len(text) of a stripped text: the phrases and the single blanks between them.
TextLen(text) == IF text = <<>> THEN 0 ELSE SumLen(text) - 1

\* Python truthiness of a str.
Truthy(text) == text # <<>>

\* ------------------------------------------------------- response_filter.py
BLOCKED_PHRASES ==
  <<"guaranteed approval", "guaranteed coverage", "no questions asked",
    "instant approval", "must buy now", "limited time only", "act immediately",
    "don't miss out", "must buy", "act now or lose", "will cure",
    "medical advice", "diagnose", "guaranteed returns", "risk-free", "no risk">>

PROHIBITED_CONTENT ==
  {"discrimination", "illegal advice", "false claims", "misleading information"}

\* for phrase in BLOCKED_PHRASES: if phrase.lower() in filtered.lower():
\*     filtered = filtered.replace(phrase, "").replace(phrase.lower(), "")
\* replace() is case-sensitive: the phrases go that are spelled as in the list.
RemoveBlocked(filtered) ==
  SelectSeq(filtered,
            LAMBDA q : \A k \in DOMAIN BLOCKED_PHRASES : q # BLOCKED_PHRASES[k])

filter_response(response) ==
  LET filtered == RemoveBlocked(response)
  IN IF HasAny(filtered, PROHIBITED_CONTENT) THEN refusal_reply
     ELSE LET human == IF Has(filtered, "human")
                       THEN [i \in DOMAIN filtered |->
                               IF filtered[i] = "I am human"
                               THEN "I am an AI assistant" ELSE filtered[i]]
                       ELSE filtered
          IN Strip(human)

\* ------------------------------------------------------ fallback_service.py
STAGE_FALLBACKS ==
  [introduction |-> fb_introduction, qualification |-> fb_qualification,
   information |-> fb_information, persuasion |-> fb_persuasion,
   objection_handling |-> fb_objection_handling,
   information_collection |-> fb_information_collection,
   closing |-> fb_closing, ended |-> fb_ended]

INTENT_FALLBACKS ==
  [greeting |-> <<"Hello! I'm here to help you with life insurance. How can I assist ...">>,
   question |-> <<"I'd be happy to answer your question. Could you please provide a bi...">>,
   interest |-> <<"That's great to hear! I'd love to help you find the right life insu...">>]

GENERIC_FALLBACKS ==
  {<<"I'm having a technical issue right now, but I'd still like to help....">>,
   <<"I'm experiencing a temporary technical problem. Please try asking y...">>,
   <<"I apologize for the technical issue. To better assist you, could yo...">>}

\* The texts get_fallback_response may return (the last branch is random.choice).
get_fallback_response(stage, intent, interest_level) ==
  IF stage # None /\ stage \in DOMAIN STAGE_FALLBACKS THEN {STAGE_FALLBACKS[stage]}
  ELSE IF intent # None /\ intent \in DOMAIN INTENT_FALLBACKS THEN {INTENT_FALLBACKS[intent]}
  ELSE IF interest_level = "high"
       THEN {<<"I'm currently experiencing a technical issue, but I'm very interest...">>}
  ELSE IF interest_level = "medium"
       THEN {<<"I apologize for the technical difficulty. I'd still like to help yo...">>}
  ELSE IF interest_level = "low"
       THEN {<<"I'm having a temporary technical issue. If you're curious about lif...">>}
  ELSE GENERIC_FALLBACKS

get_database_error_message == db_error

\* --------------------------------------------------------- retry_service.py
\* retry_with_backoff on an operation that fails `fails` times and then
\* succeeds (fails >= max_attempts: on every attempt made), every error
\* retryable: whether it raised, the calls made and the delays slept.
\* A test that lets one attempt more through.
exhausted_one_late(attempt, n) == attempt > n

\* if attempt >= self.config.max_attempts: raise
exhausted(attempt, n) == attempt >= n

RECURSIVE RetryLoop(_, _, _)
RetryLoop(attempt, fails, delays) ==
  IF attempt > fails
  THEN [raised |-> FALSE, calls |-> attempt, delays |-> delays]
  ELSE IF exhausted(attempt, max_attempts)
       THEN [raised |-> TRUE, calls |-> attempt, delays |-> delays]
       ELSE RetryLoop(attempt + 1, fails, delays + 1)

retry_with_backoff(fails) == RetryLoop(1, fails, 0)

\* How often an operation may fail before it succeeds.
FailCounts == {0, 1, max_attempts}

\* -------------------------------------------------------- session_manager.py
CustomerProfile == [age |-> None, purpose |-> None, name |-> None, phone |-> None,
                    email |-> None, address |-> None]

CollectedData == [full_name |-> None, phone_number |-> None, nid |-> None,
                  address |-> None, policy_of_interest |-> None, email |-> None]

is_complete(cd) ==
  /\ cd.full_name # None
  /\ cd.phone_number # None
  /\ cd.nid # None
  /\ cd.address # None
  /\ cd.policy_of_interest # None

\* SessionState(session_id, conversation_id) with the dataclass defaults.
SessionState ==
  [conversation_stage |-> "introduction",
   customer_profile |-> CustomerProfile,
   collected_data |-> CollectedData,
   interest_level |-> "none",
   message_count |-> 0,
   awaiting_confirmation |-> FALSE,
   confirmation_attempts |-> 0]

\* ------------------------------------------- information_extraction_service.py
\* sanitize_input: strip, collapse whitespace, cut at 2000 characters (no
\* input of the model is that long).
sanitize_input(message) == Strip(message)

\* _extract_with_regex on the inputs of the model: none of them matches the
\* age, phone or e-mail pattern ("34" is followed neither by "years old" nor
\* by "age"); the name pattern (re.IGNORECASE) matches "i am not sure" and
\* yields the name "not sure".
extract_with_regex(message) ==
  IF \E i \in DOMAIN message : message[i] = "but I am not sure"
  THEN {"name"} ELSE {}

\* What extract_entities of the provider may return: the keys of the JSON
\* object it gives a value for (json.loads of the LLM's text, whatever keys
\* it holds).
EntityAnswers ==
  {[ok |-> FALSE, entities |-> {}], [ok |-> TRUE, entities |-> {}],
   [ok |-> TRUE, entities |-> {"age"}],
   [ok |-> TRUE, entities |-> {"name", "phone", "address"}],
   [ok |-> TRUE, entities |-> {"name", "phone", "nid", "address", "policy"}]}

\* extract_information: the provider's answer, the regex patterns when it raises.
extract_information(message, llm) ==
  IF llm.ok THEN llm.entities ELSE extract_with_regex(message)

\* process_message, step 7: the found fields are merged into the profile
\* and into the collected data.
Value == "v"

MergeExtracted(state, extracted) ==
  LET prof == state.customer_profile
      cd == state.collected_data
  IN [state EXCEPT
        !.customer_profile =
          [prof EXCEPT !.age = IF "age" \in extracted THEN Value ELSE @,
                       !.name = IF "name" \in extracted THEN Value ELSE @,
                       !.phone = IF "phone" \in extracted THEN Value ELSE @,
                       !.email = IF "email" \in extracted THEN Value ELSE @,
                       !.address = IF "address" \in extracted THEN Value ELSE @],
        !.collected_data =
          [cd EXCEPT !.full_name = IF "name" \in extracted THEN Value ELSE @,
                     !.phone_number = IF "phone" \in extracted THEN Value ELSE @,
                     !.email = IF "email" \in extracted THEN Value ELSE @,
                     !.address = IF "address" \in extracted THEN Value ELSE @]]

\* ------------------------------------------------- conversation_service.py
exit_keywords ==
  {"not interested", "no thanks", "i'll pass", "i don't want", "maybe later",
   "i have to go", "thanks but no", "not for me"}

\* An exit test that looks at the classified intent only.
is_exit_signal_intent_only(message, intent) == intent = "exit"

_is_exit_signal(message, intent) ==
  HasAny(message, exit_keywords) \/ intent = "exit"

\* detect_intent, the keyword fallback.
KeywordIntent(message) ==
  IF HasAny(message, {"hello", "hi", "hey", "greetings"}) THEN "greeting"
  ELSE IF HasAny(message, {"not interested", "no thanks", "no", "stop"}) THEN "exit"
  ELSE IF HasAny(message, {"expensive", "cost", "too much", "afford"}) THEN "objection"
  ELSE IF HasAny(message, {"interested", "want", "apply", "sign up"}) THEN "interest"
  ELSE IF Has(message, "?") THEN "question"
  ELSE "unknown"

\* What classify_intent of the provider may answer.
IntentAnswers == {"exit", "objection", "unknown"}

\* detect_intent: the provider's answer through the Retry service, the
\* keywords when it raised on every attempt.
detect_intent(message, llm) ==
  IF llm = "fail" THEN KeywordIntent(message) ELSE llm

\* A detector that knows no objection type.
detect_objection_type_none(message) == None

_detect_objection_type(message) ==
  IF HasAny(message, {"expensive", "cost", "price", "afford", "cheap", "too much"})
    THEN "cost"
  ELSE IF HasAny(message, {"don't need", "not necessary", "don't want", "not for me"})
    THEN "necessity"
  ELSE IF HasAny(message, {"complicated", "confusing", "complex", "don't understand",
                           "too hard"})
    THEN "complexity"
  ELSE IF HasAny(message, {"trust", "scam", "legit", "real", "believe", "skeptical"})
    THEN "trust"
  ELSE IF HasAny(message, {"later", "think about it", "not now", "maybe later", "wait"})
    THEN "timing"
  ELSE IF HasAny(message, {"other company", "competitor", "better deal",
                           "cheaper elsewhere"})
    THEN "comparison"
  ELSE None

OBJECTION_RESPONSE_TEMPLATES ==
  [cost |-> obj_cost, necessity |-> obj_necessity, complexity |-> obj_complexity,
   trust |-> obj_trust, timing |-> obj_timing, comparison |-> obj_comparison]

_is_profile_complete(profile) == profile.age # None /\ profile.purpose # None

\* _determine_stage with the objection rule ahead of the lead-capture rule.
determine_stage_objection_first(state, intent) ==
  IF state.conversation_stage = "ended" THEN "ended"
  ELSE IF intent = "objection" THEN "objection_handling"
  ELSE IF /\ state.interest_level \in {"high", "medium"}
          /\ ~is_complete(state.collected_data)
       THEN "information_collection"
  ELSE IF state.conversation_stage = "introduction"
       THEN IF _is_profile_complete(state.customer_profile)
            THEN "information" ELSE "qualification"
  ELSE state.conversation_stage

_determine_stage(state, intent) ==
  IF state.conversation_stage = "ended" THEN "ended"
  ELSE IF /\ state.interest_level \in {"high", "medium"}
          /\ ~is_complete(state.collected_data)
       THEN "information_collection"
  ELSE IF intent = "objection" THEN "objection_handling"
  ELSE IF state.conversation_stage = "introduction"
       THEN IF _is_profile_complete(state.customer_profile)
            THEN "information" ELSE "qualification"
  ELSE state.conversation_stage

_detect_interest_from_response(response, state) ==
  IF state.interest_level # "none" THEN state.interest_level
  ELSE IF HasAny(response, {"interested", "want", "apply", "sign up", "next step"})
       THEN "medium"
  ELSE "none"

\* The fallback question of _handle_information_collection: the next
\* missing mandatory field.
NextFieldRequest(cd) ==
  IF cd.full_name = None THEN ask_name
  ELSE IF cd.phone_number = None THEN ask_phone
  ELSE IF cd.nid = None THEN ask_nid
  ELSE IF cd.address = None THEN ask_address
  ELSE ask_policy

confirmation_keywords ==
  {"yes", "correct", "right", "that's right", "that is correct", "looks good",
   "ok", "okay", "confirm", "proceed"}

denial_keywords ==
  {"no", "wrong", "incorrect", "that's wrong", "that is wrong", "change", "correction"}

correction_keywords == {"wrong", "incorrect", "change", "different"}

\* _extract_correction_field, the keyword table (dict order: name, phone,
\* nid, address, policy, email): the display name of the field, lower-cased
\* as its readers do, None when no field keyword matches.
FieldByKeyword(message) ==
  IF ~HasAny(message, {"wrong", "incorrect", "change", "different", "update", "correct"})
  THEN None
  ELSE IF HasAny(message, {"name", "full name"}) THEN "full name"
  ELSE IF HasAny(message, {"phone", "phone number", "mobile", "telephone"})
       THEN "phone number"
  ELSE IF HasAny(message, {"national id", "nid", "id", "national identification"})
       THEN "national id"
  ELSE IF HasAny(message, {"address", "location", "where i live"}) THEN "address"
  ELSE IF HasAny(message, {"policy", "insurance", "plan"}) THEN "policy of interest"
  ELSE IF HasAny(message, {"email", "e-mail", "mail"}) THEN "email"
  ELSE None

\* ------------------------------------------------------ the message log
\* A row of the messages table, as the orchestrator reads it back: the role
\* and what its keyword tests see of the content.
negative_words == {"no", "not", "don't", "won't", "can't", "shouldn't", "never", "none"}

positive_words == {"yes", "interested", "want", "need", "like", "good", "great"}

specific_words == {"term life", "whole life", "policy", "coverage"}

clear_words == {"policy", "coverage", "premium", "term"}

Row(role, content) ==
  [role |-> role,
   negative |-> role = "user" /\ HasAny(content, negative_words),
   positive |-> role = "user" /\ HasAny(content, positive_words),
   specific |-> role = "assistant" /\ HasAny(content, specific_words),
   clear |-> role = "assistant" /\ HasAny(content, clear_words)]

\* db.add(MessageModel(...)): _get_messages orders by created_at ascending
\* and limits, so only the first RecentLimit rows are ever read back.
AddRow(rows, role, content) ==
  IF Len(rows) < RecentLimit THEN Append(rows, Row(role, content)) ELSE rows

\* _get_recent_messages: the first RecentLimit rows, reversed.
RECURSIVE Reverse(_)
Reverse(s) == IF s = <<>> THEN <<>> ELSE Append(Reverse(Tail(s)), Head(s))

_get_recent_messages(rows) == Reverse(rows)

\* s[-n:]
LastN(s, n) == IF Len(s) <= n THEN s ELSE SubSeq(s, Len(s) - n + 1, Len(s))

\* Names of the policies the policy service lists: no content of the model
\* mentions one.
policies_discussed(recent) == {}

\* ------------------------------------------- ambiguity_detection_service.py
\* AMBIGUOUS_PRONOUNS, VAGUE_PHRASES and CONTRADICTORY_INDICATORS on the
\* inputs of the model.
detect_ambiguous_pronouns(message) ==
  \E i \in DOMAIN message : message[i] \in {"tell me more about that"}

detect_vague_language(message) ==
  \E i \in DOMAIN message : message[i] \in {"tell me more about that"}

has_contradiction_indicator(message) ==
  \E i \in DOMAIN message : message[i] \in {"but I am not sure"}

\* recent_messages: the recent user rows, most recent first.
detect_contradictory_statements(message, recent_messages) ==
  /\ has_contradiction_indicator(message)
  /\ recent_messages # <<>>
  /\ LET window == LastN(recent_messages, RecentWindow)
         recent_negative == \E i \in DOMAIN window : window[i].negative
         recent_positive == \E i \in DOMAIN window : window[i].positive
         current_negative == HasAny(message, negative_words)
         current_positive == HasAny(message, positive_words)
     IN \/ recent_negative /\ current_positive
        \/ recent_positive /\ current_negative

\* The analysis call is made for a pronoun, a vague phrase or a short message.
AnalysisAsked(message) ==
  \/ detect_ambiguous_pronouns(message)
  \/ detect_vague_language(message)
  \/ TextLen(message) < ShortMessage

\* What the analysis call may give: it raises, or its text says whether the
\* message has several meanings.
AnalysisAnswers == {"fail", "ambiguity: no", "ambiguity: yes"}

\* detect_ambiguity: the ambiguity type, None when the message is clear.
detect_ambiguity(message, recent_messages, analysis) ==
  LET has_pronouns == detect_ambiguous_pronouns(message)
      has_vague == detect_vague_language(message)
      has_contradiction == detect_contradictory_statements(message, recent_messages)
      has_multiple_interpretations ==
        AnalysisAsked(message) /\ analysis = "ambiguity: yes"
  IN IF has_pronouns THEN "pronoun"
     ELSE IF has_vague THEN "vague"
     ELSE IF has_contradiction THEN "contradictory"
     ELSE IF has_multiple_interpretations THEN "multiple_interpretations"
     ELSE None

\* recent: every recent row, most recent first.
_can_resolve_ambiguity_with_context(ambiguity_type, recent) ==
  LET window == LastN(recent, RecentWindow)
      discussed == Cardinality(policies_discussed(recent))
  IN IF ambiguity_type = None THEN TRUE
     ELSE IF ambiguity_type = "pronoun" /\ discussed = 1 THEN TRUE
     ELSE IF /\ ambiguity_type = "pronoun"
             /\ \E i \in DOMAIN window : window[i].specific
          THEN discussed <= 2
     ELSE IF /\ ambiguity_type = "vague"
             /\ recent # <<>>
             /\ recent[Len(recent)].role = "assistant"
             /\ recent[Len(recent)].clear
          THEN TRUE
     ELSE FALSE

\* The question asked for each ambiguity type; the recent topics are never
\* empty, the welcome message names insurance.
ClarificationTemplate(ambiguity_type) ==
  IF ambiguity_type = "pronoun" THEN cl_pron_ctx
  ELSE IF ambiguity_type = "vague" THEN cl_vague_ctx
  ELSE IF ambiguity_type = "contradictory" THEN cl_contra
  ELSE IF ambiguity_type = "multiple_interpretations" THEN cl_multi
  ELSE cl_missing

\* What a generate_response call of the provider may give: it raises, or
\* it returns this content.
Failed == [ok |-> FALSE, content |-> <<>>]

Returned(content) == [ok |-> TRUE, content |-> content]

Responses == {Failed} \cup {Returned(c) : c \in LLMContents}

\* generate_clarification_request: the template question, or the refinement
\* call's text when it is longer than RefinedMin characters.
generate_clarification_request(ambiguity_type, refinement) ==
  LET refined == Strip(refinement.content)
  IN IF refinement.ok /\ Truthy(refined) /\ TextLen(refined) > RefinedMin
     THEN refined
     ELSE ClarificationTemplate(ambiguity_type)

\* ------------------------------------------------------------- the state
VARIABLES
  store,          \* the Session Store: the SessionState under the session's key
  conversations,  \* the conversations table: the row of the session
  log,            \* the messages table: the first RecentLimit rows, oldest first
  leads,          \* the leads table: how many rows it holds
  last,           \* the outcome of the last call, as its caller sees it
  turns,          \* the process_message calls made
  fcall,          \* a service function called on its own: arguments, progress, result
  interest_seen   \* the highest interest_level the store has held for the session

vars == <<store, conversations, log, leads, last, turns, fcall, interest_seen>>

\* interest_seen after the store has become `saved`.
Highest(saved) ==
  IF \E s \in saved : InterestRank(s.interest_level) > InterestRank(interest_seen)
  THEN (CHOOSE s \in saved : TRUE).interest_level
  ELSE interest_seen

\* No service function is being called on its own.
NoFunction == [fn |-> "none"]

\* What a call gave: the error it raised ("" for none), the handler that
\* answered (path), the ConversationResponse (message, stage, interest), and
\* what was asked of the LLM provider on the way, and what was done with
\* create_lead: how often it was invoked, how many backoff delays were
\* waited and the error it ended with; what detect_ambiguity found; and
\* whether the customer's message states an age and a purpose; whether
\* save_session was called and whether state.last_activity was assigned;
\* whether generate_response of the provider was called for the reply;
\* whether extract_information gave all five mandatory fields.
NoCall ==
  [op |-> "none", error |-> "", path |-> "", message |-> <<>>, stage |-> "",
   interest |-> "", exit_signal |-> FALSE, affirmative |-> FALSE,
   llm_succeeded |-> FALSE, llm_after_exit |-> FALSE, db_failed |-> FALSE,
   lead_calls |-> 0, lead_delays |-> 0, lead_error |-> "",
   has_contradiction |-> FALSE, has_multiple_interpretations |-> FALSE,
   age_and_purpose |-> FALSE, saved |-> FALSE, last_activity |-> FALSE,
   generated |-> FALSE, mandatory_extracted |-> FALSE]

WelcomeMessages == {welcome_generic_0, welcome_evening_0}

\* An operation run through the Retry service that fails `fails` times and
\* then gives `result`.
Retried(fails, result, failure) ==
  IF retry_with_backoff(fails).raised THEN failure ELSE result

\* The generate_response calls made through the Retry service.
RetriedResponses ==
  {Retried(f, Returned(c), Failed) : f \in FailCounts, c \in LLMContents}

\* The classify_intent calls made through the Retry service.
RetriedIntents ==
  {Retried(f, a, "fail") : f \in FailCounts, a \in IntentAnswers}

Init ==
  /\ store = {}
  /\ conversations = {}
  /\ log = <<>>
  /\ leads = 0
  /\ last = NoCall
  /\ turns = 0
  /\ fcall = NoFunction
  /\ interest_seen = "none"

\* start_conversation
StartConversation ==
  /\ conversations = {}
  /\ \E welcome_message \in WelcomeMessages :
       /\ conversations' = {[stage |-> "introduction", message_count |-> 0]}
       /\ store' = {SessionState}
       /\ log' = AddRow(<<>>, "assistant", welcome_message)
       /\ last' = [NoCall EXCEPT !.op = "start", !.message = welcome_message,
                                 !.stage = "introduction", !.interest = "none"]
  /\ interest_seen' = "none"
  /\ UNCHANGED <<leads, turns, fcall>>

\* The key of the session reaches its TTL (session_ttl) and Redis drops it.
Expire ==
  /\ store # {}
  /\ store' = {}
  /\ last' = [NoCall EXCEPT !.op = "expire"]
  /\ UNCHANGED <<conversations, log, leads, turns, fcall, interest_seen>>

\* end_conversation, called by the route.
EndConversation ==
  /\ conversations # {}
  /\ IF store = {}
     THEN /\ last' = [NoCall EXCEPT !.op = "end", !.error = "SessionNotFoundError"]
          /\ UNCHANGED <<store, conversations>>
     ELSE \E fails \in FailCounts :
            LET state == CHOOSE s \in store : TRUE
                conv == CHOOSE c \in conversations : TRUE
                summary == retry_with_backoff(fails)
            IN /\ conversations' = {[conv EXCEPT !.stage = "ended"]}
               /\ store' = {[state EXCEPT !.conversation_stage = "ended"]}
               /\ last' = [NoCall EXCEPT !.op = "end", !.stage = "ended",
                                         !.llm_succeeded = ~summary.raised]
  /\ UNCHANGED <<log, leads, turns, fcall, interest_seen>>

\* ------------------------------------------------- process_message, by path
\* What every return of process_message does to the state: the store holds
\* `saved`, the tables hold what the request committed.
Return(saved, conv, rows, created, result) ==
  /\ store' = {saved}
  /\ conversations' = {conv}
  /\ log' = rows
  /\ leads' = leads + created
  /\ last' = result
  /\ turns' = turns + 1
  /\ interest_seen' = Highest({saved})
  /\ UNCHANGED fcall

\* An error leaves process_message: get_db rolls the request back, the
\* saves made to the Session Store stay.
Raise(saved, result) ==
  /\ store' = saved
  /\ last' = result
  /\ turns' = turns + 1
  /\ interest_seen' = Highest(saved)
  /\ UNCHANGED <<conversations, log, leads, fcall>>

\* Step 4, the clarification question is the reply.
Clarify(state, conv, rows, ambiguity_type, call) ==
  \E refinement \in Responses :
    LET clarification == generate_clarification_request(ambiguity_type, refinement)
        filtered_clarification == filter_response(clarification)
    IN Return(state, conv, AddRow(rows, "assistant", filtered_clarification), 0,
              [call EXCEPT !.path = "clarification",
                           !.generated = TRUE,
                           !.message = filtered_clarification,
                           !.stage = state.conversation_stage,
                           !.interest = state.interest_level,
                           !.llm_succeeded = @ \/ refinement.ok])

\* _handle_exit, with end_conversation and the generate_summary call it
\* makes through the Retry service.
_handle_exit(state, conv, rows, call) ==
  \E fails \in FailCounts :
    LET summary == retry_with_backoff(fails)
    IN Return([state EXCEPT !.conversation_stage = "ended"],
              [conv EXCEPT !.stage = "ended"],
              AddRow(rows, "assistant", exit_message), 0,
              [call EXCEPT !.path = "exit", !.message = exit_message,
                           !.saved = TRUE,
                           !.stage = "ended", !.interest = "none",
                           !.llm_after_exit = summary.calls > 0,
                           !.llm_succeeded = @ \/ ~summary.raised])

\* _handle_objection: a template for a known objection type, the provider
\* asked directly otherwise.
_handle_objection(state, conv, rows, message, call) ==
  LET objection_type == _detect_objection_type(message)
      answered(reply, ok) ==
        Return(state, conv, AddRow(rows, "assistant", filter_response(reply)), 0,
               [call EXCEPT !.path = "objection",
                            !.generated = ok,
                            !.message = filter_response(reply),
                            !.stage = "objection_handling",
                            !.interest = state.interest_level,
                            !.llm_succeeded = @ \/ ok])
  IN IF objection_type # None
     THEN answered(OBJECTION_RESPONSE_TEMPLATES[objection_type], FALSE)
     ELSE \E response \in Responses :
            IF response.ok
            THEN answered(response.content, TRUE)
            ELSE Raise({state}, [call EXCEPT !.path = "objection",
                                             !.generated = TRUE,
                                             !.error = "LLMAPIError"])

\* Steps 9 to 14: general generation.
Generate(state, conv, rows, message, stage, call) ==
  \E response \in RetriedResponses :
    LET intent_keyword ==
          IF HasAny(message, {"hello", "hi", "hey"}) THEN "greeting"
          ELSE IF HasAny(message, {"interested", "want", "need", "looking"})
               THEN "interest"
          ELSE IF HasAny(message, {"?", "what", "how", "tell me"}) THEN "question"
          ELSE None
        contents ==
          IF response.ok /\ Truthy(response.content) THEN {response.content}
          ELSE get_fallback_response(stage, intent_keyword, state.interest_level)
    IN \E llm_content \in contents :
         LET filtered_response == filter_response(llm_content)
             interest_level == _detect_interest_from_response(filtered_response, state)
             updated == [state EXCEPT !.interest_level = interest_level,
                                      !.message_count = @ + 1,
                                      !.conversation_stage = stage]
         IN Return(updated,
                   [conv EXCEPT !.stage = stage,
                                !.message_count = updated.message_count],
                   AddRow(rows, "assistant", filtered_response), 0,
                   [call EXCEPT !.path = "general",
                                !.generated = TRUE,
                                !.saved = TRUE,
                                !.last_activity = TRUE,
                                !.message = filtered_response,
                                !.stage = stage,
                                !.interest = interest_level,
                                !.llm_succeeded = @ \/ response.ok])

\* What the leads table and its session may do on a create_lead and on the
\* commit after it, each run through the Retry service: the error of
\* create_lead ("" for none) and on how many attempts it comes, and on how
\* many attempts the commit fails.  LeadValidationError (invalid data) and
\* ValueError (a lead with this phone exists) come on every attempt.
DbOutcomes ==
  {[create_error |-> "", create_fails |-> f, commit_fails |-> c] :
     f \in {0, 1}, c \in {0, max_attempts}}
  \cup {[create_error |-> e, create_fails |-> max_attempts, commit_fails |-> 0] :
          e \in {"LeadValidationError", "ValueError", "OperationalError"}}

\* validate_lead_data: a name and a phone number are required.
validate_lead_data(cd) == cd.full_name # None /\ cd.phone_number # None

\* What the field-extraction call may give, through the Retry service.
FieldAnswers == {"fail", "none", "phone number", "the phone"}

RetriedFields ==
  {Retried(f, answer, "fail") : f \in FailCounts, answer \in FieldAnswers}

\* _extract_correction_field: the display name of the field, None for none.
_extract_correction_field(message, llm) ==
  LET field == FieldByKeyword(message)
  IN IF field # None THEN field
     ELSE IF llm \in {"fail", "none"} THEN None
     ELSE llm

\* field_map.get(field_to_correct.lower()) of the correction branch.
field_map(field_to_correct) ==
  IF field_to_correct \in {"full name", "phone number", "national id", "address",
                           "policy of interest", "email"}
  THEN field_to_correct ELSE None

\* field_to_key: the extraction key of a field.
field_to_key(field_to_correct) ==
  CASE field_to_correct = "full name" -> "name"
    [] field_to_correct = "phone number" -> "phone"
    [] field_to_correct = "national id" -> "nid"
    [] field_to_correct = "address" -> "address"
    [] field_to_correct = "policy of interest" -> "policy"
    [] field_to_correct = "email" -> "email"
    [] OTHER -> None

\* setattr(state.collected_data, field_key, value)
SetField(cd, field_key, value) ==
  CASE field_key = "full name" -> [cd EXCEPT !.full_name = value]
    [] field_key = "phone number" -> [cd EXCEPT !.phone_number = value]
    [] field_key = "national id" -> [cd EXCEPT !.nid = value]
    [] field_key = "address" -> [cd EXCEPT !.address = value]
    [] field_key = "policy of interest" -> [cd EXCEPT !.policy_of_interest = value]
    [] field_key = "email" -> [cd EXCEPT !.email = value]
    [] OTHER -> cd

\* The reply of an information-collection handler. All of them call
\* save_session but the one that asks for the next field.
Collected(state, conv, rows, created, path, reply, stage, call) ==
  Return(state, conv, AddRow(rows, "assistant", filter_response(reply)), created,
         [call EXCEPT !.path = path, !.message = filter_response(reply),
                      !.saved = @ \/ path # "collect",
                      !.stage = stage, !.interest = state.interest_level])

\* _handle_confirmation_response, the customer confirmed: the lead is
\* created and committed. A rollback takes the user's row with it.
Confirmed(state, conv, rows, call) ==
  LET cleared == [state EXCEPT !.awaiting_confirmation = FALSE,
                               !.confirmation_attempts = 0]
  IN \E db \in DbOutcomes :
       LET invalid == ~validate_lead_data(state.collected_data)
           create == retry_with_backoff(IF invalid THEN max_attempts
                                        ELSE db.create_fails)
           commit == retry_with_backoff(db.commit_fails)
           tried == [call EXCEPT
                       !.lead_calls = create.calls,
                       !.lead_delays = create.delays,
                       !.lead_error = IF ~create.raised THEN ""
                                      ELSE IF invalid THEN "LeadValidationError"
                                      ELSE db.create_error]
       IN IF ~create.raised /\ ~commit.raised
          THEN Collected(cleared, conv, rows, 1, "confirmed", saved_ok_reply,
                         "closing", tried)
          ELSE Collected(cleared, conv, log, 0, "confirmed",
                         get_database_error_message, "closing",
                         [tried EXCEPT !.db_failed = TRUE])

\* _handle_confirmation_response, the customer asked for a correction.
Correction(state, conv, rows, message, field_to_correct, call) ==
  LET asked == [state EXCEPT !.awaiting_confirmation = FALSE,
                             !.confirmation_attempts = @ + 1]
      field_key == field_map(field_to_correct)
  IN IF field_to_correct = None
     THEN Collected(asked, conv, rows, 0, "correction", corr_which,
                    "information_collection", call)
     ELSE \E llm \in EntityAnswers :
            LET extracted == extract_information(message, llm)
                corrected == field_to_key(field_to_correct) \in extracted
                data == IF field_key = None THEN asked.collected_data
                        ELSE SetField(asked.collected_data, field_key,
                                      IF corrected THEN Value ELSE None)
                again == field_key # None /\ corrected /\ is_complete(data)
                saved == [asked EXCEPT !.collected_data = data,
                                       !.awaiting_confirmation = again,
                                       !.confirmation_attempts =
                                          IF again THEN 1 ELSE @]
                reply == IF field_key = None \/ ~corrected THEN corr_ask
                         ELSE IF again THEN corr_updated_summary
                         ELSE corr_updated
            IN Collected(saved, conv, rows, 0, "correction", reply,
                         "information_collection",
                         [call EXCEPT !.llm_succeeded = @ \/ llm.ok])

\* _handle_confirmation_response
_handle_confirmation_response(state, conv, rows, message, call) ==
  LET denied == HasAny(message, denial_keywords)
      confirmed == HasAny(message, confirmation_keywords) /\ ~denied
  IN IF confirmed THEN Confirmed(state, conv, rows, call)
     ELSE IF denied
     THEN \E llm \in (IF FieldByKeyword(message) = None
                      THEN RetriedFields ELSE {"none"}) :
            LET asked == FieldByKeyword(message) = None
                field_to_correct == _extract_correction_field(message, llm)
                then == [call EXCEPT !.llm_succeeded = @ \/ (asked /\ llm # "fail")]
            IN IF field_to_correct # None \/ HasAny(message, correction_keywords)
               THEN Correction(state, conv, rows, message, field_to_correct, then)
               ELSE Collected([state EXCEPT !.confirmation_attempts = @ + 1],
                              conv, rows, 0, "unclear",
                              IF state.confirmation_attempts + 1 >= 2
                              THEN unclear_directive ELSE unclear_plain,
                              "information_collection", then)
     ELSE IF HasAny(message, correction_keywords)
     THEN Correction(state, conv, rows, message, None, call)
     ELSE Collected([state EXCEPT !.confirmation_attempts = @ + 1],
                    conv, rows, 0, "unclear",
                    IF state.confirmation_attempts + 1 >= 2
                    THEN unclear_directive ELSE unclear_plain,
                    "information_collection", call)

\* _handle_information_collection
_handle_information_collection(state, conv, rows, message, call) ==
  IF state.awaiting_confirmation
  THEN _handle_confirmation_response(state, conv, rows, message, call)
  ELSE IF is_complete(state.collected_data)
  THEN Collected([state EXCEPT !.awaiting_confirmation = TRUE,
                               !.confirmation_attempts = 1],
                 conv, rows, 0, "summary", summary_text,
                 "information_collection", call)
  ELSE \E response \in RetriedResponses :
         Collected(state, conv, rows, 0, "collect",
                   IF response.ok /\ Truthy(response.content)
                   THEN response.content
                   ELSE NextFieldRequest(state.collected_data),
                   "information_collection",
                   [call EXCEPT !.generated = TRUE,
                                !.llm_succeeded = @ \/ response.ok])

\* process_message
ProcessMessage ==
  /\ turns < MaxTurns
  /\ \E user_message \in UserMessages :
       IF conversations = {}
       THEN Raise(store, [NoCall EXCEPT !.op = "message", !.path = "unknown",
                                        !.error = "ValueError"])
       ELSE
         LET state == IF store = {} THEN SessionState ELSE CHOOSE s \in store : TRUE
             conv == CHOOSE c \in conversations : TRUE
             sanitized_message == sanitize_input(user_message)
             rows == AddRow(log, "user", sanitized_message)
             recent_messages == _get_recent_messages(rows)
             recent_message_texts ==
               SelectSeq(recent_messages, LAMBDA r : r.role = "user")
             call == [NoCall EXCEPT
                        !.op = "message",
                        !.saved = store = {},
                        !.age_and_purpose =
                           sanitized_message = <<"I'm 34 and want to protect my family">>,
                        !.exit_signal = HasAny(sanitized_message, exit_keywords),
                        !.affirmative =
                           /\ HasAny(sanitized_message, confirmation_keywords)
                           /\ ~HasAny(sanitized_message, denial_keywords)]
         IN \E analysis \in (IF AnalysisAsked(sanitized_message)
                             THEN AnalysisAnswers ELSE {"fail"}) :
              LET ambiguity_type ==
                    detect_ambiguity(sanitized_message, recent_message_texts, analysis)
                  analysed ==
                    [call EXCEPT
                       !.llm_succeeded = analysis # "fail",
                       !.has_contradiction =
                          detect_contradictory_statements(sanitized_message,
                                                          recent_message_texts),
                       !.has_multiple_interpretations =
                          AnalysisAsked(sanitized_message)
                          /\ analysis = "ambiguity: yes"]
              IN IF ~_can_resolve_ambiguity_with_context(ambiguity_type, recent_messages)
                 THEN Clarify(state, conv, rows, ambiguity_type, analysed)
                 ELSE \E llm \in RetriedIntents :
                   LET intent == detect_intent(sanitized_message, llm)
                       classified == [analysed EXCEPT
                                        !.exit_signal = @ \/ intent = "exit",
                                        !.llm_succeeded = @ \/ llm # "fail"]
                   IN IF _is_exit_signal(sanitized_message, intent)
                      THEN _handle_exit(state, conv, rows, classified)
                      ELSE \E entities \in EntityAnswers :
                        LET extracted_data ==
                              extract_information(sanitized_message, entities)
                            merged == MergeExtracted(state, extracted_data)
                            stage == _determine_stage(merged, intent)
                            extracted == [classified EXCEPT
                                            !.saved = @ \/ extracted_data # {},
                                            !.mandatory_extracted =
                                               {"name", "phone", "nid", "address",
                                                "policy"} \subseteq extracted_data,
                                            !.llm_succeeded = @ \/ entities.ok]
                        IN IF stage = "information_collection"
                           THEN _handle_information_collection(
                                  merged, conv, rows, sanitized_message, extracted)
                           ELSE IF stage = "objection_handling"
                           THEN _handle_objection(
                                  merged, conv, rows, sanitized_message, extracted)
                           ELSE Generate(merged, conv, rows, sanitized_message,
                                         stage, extracted)

Next ==
  \/ StartConversation
  \/ ProcessMessage
  \/ EndConversation
  \/ Expire

Spec == Init /\ [][Next]_vars

\* ------------------------------------------- a session found in the store
\* get_session gives whatever SessionState the store holds under the key.
\* The states below are sessions in the middle of the capture of a lead.
\* They are taken from the store and not from a behaviour of Spec:
\* process_message never stores nid or policy_of_interest, so a session
\* that starts with start_conversation never has complete data.
Complete ==
  [full_name |-> Value, phone_number |-> Value, nid |-> Value, address |-> Value,
   policy_of_interest |-> Value, email |-> None]

Partial == [CollectedData EXCEPT !.full_name = Value, !.phone_number = Value]

LoadedStates ==
  {[SessionState EXCEPT !.conversation_stage = stage,
                        !.collected_data = data,
                        !.interest_level = interest,
                        !.awaiting_confirmation = awaiting,
                        !.confirmation_attempts = IF awaiting THEN 1 ELSE 0] :
     stage \in {"information", "information_collection"},
     data \in {Complete, Partial},
     interest \in {"none", "high"},
     awaiting \in BOOLEAN}

InitLoaded ==
  /\ \E state \in LoadedStates :
       /\ store = {state}
       /\ conversations = {[stage |-> state.conversation_stage, message_count |-> 0]}
       /\ interest_seen = state.interest_level
  /\ log = AddRow(<<>>, "assistant", welcome_generic_0)
  /\ leads = 0
  /\ last = NoCall
  /\ turns = MaxTurns - LoadedTurns
  /\ fcall = NoFunction

NextLoaded ==
  \/ ProcessMessage
  \/ EndConversation
  \/ Expire

SpecLoaded == InitLoaded /\ [][NextLoaded]_vars

\* ------------------------------------ a session that awaits confirmation
\* The summary has been presented: the stored state is in stage
\* InformationCollection with complete data and awaits the customer's yes.
ConfirmingStates ==
  {[SessionState EXCEPT !.conversation_stage = "information_collection",
                        !.collected_data = Complete,
                        !.interest_level = interest,
                        !.awaiting_confirmation = TRUE,
                        !.confirmation_attempts = 1] :
     interest \in {"none", "high"}}

InitConfirming ==
  /\ \E state \in ConfirmingStates :
       /\ store = {state}
       /\ conversations = {[stage |-> state.conversation_stage, message_count |-> 0]}
       /\ interest_seen = state.interest_level
  /\ log = AddRow(AddRow(<<>>, "assistant", welcome_generic_0),
                  "assistant", summary_text)
  /\ leads = 0
  /\ last = NoCall
  /\ turns = MaxTurns - ConfirmTurns
  /\ fcall = NoFunction

SpecConfirming == InitConfirming /\ [][NextLoaded]_vars

\* ------------------------------------- retry_with_backoff, step by step
\* The calls of the service functions made on their own leave the session,
\* the tables and the outcome of the last orchestrator call alone.
Alone == UNCHANGED <<store, conversations, log, leads, last, turns, interest_seen>>

InitAlone ==
  /\ store = {}
  /\ conversations = {}
  /\ log = <<>>
  /\ leads = 0
  /\ last = NoCall
  /\ turns = 0
  /\ interest_seen = "none"

\* RetryService(RetryConfig(max_attempts = n)).retry_with_backoff(func) on
\* an operation that fails on its first `fails` invocations with an error
\* that is retryable or not, and succeeds afterwards.  pc is where the loop
\* stands: before an invocation of func, before a sleep, or left by a
\* return or a raise.
RetryCalls ==
  {[fn |-> "retry_with_backoff", n |-> n, fails |-> fails, retryable |-> retryable,
    attempt |-> 1, calls |-> 0, delays |-> 0, pc |-> "call"] :
     n \in 1..MaxAttempts, fails \in 0..MaxAttempts, retryable \in BOOLEAN}

InitRetry == InitAlone /\ fcall \in RetryCalls

\* result = await func(), and what the except clause does with a failure.
RetryInvoke ==
  /\ fcall.fn = "retry_with_backoff"
  /\ fcall.pc = "call"
  /\ fcall' = [fcall EXCEPT
                 !.calls = @ + 1,
                 !.pc = IF fcall.attempt > fcall.fails THEN "returned"
                        ELSE IF ~fcall.retryable THEN "raised"
                        ELSE IF exhausted(fcall.attempt, fcall.n) THEN "raised"
                        ELSE "sleep"]
  /\ Alone

\* await asyncio.sleep(delay), and the next round of the for loop.
RetrySleep ==
  /\ fcall.fn = "retry_with_backoff"
  /\ fcall.pc = "sleep"
  /\ fcall' = [fcall EXCEPT
                 !.delays = @ + 1,
                 !.attempt = @ + 1,
                 !.pc = IF fcall.attempt + 1 <= fcall.n THEN "call" ELSE "raised"]
  /\ Alone

NextRetry ==
  \/ RetryInvoke
  \/ RetrySleep

SpecRetry == InitRetry /\ [][NextRetry]_vars

\* ------------------------------------------- filter_response on its own
\* The texts given to the filter: blocked phrases as the list spells them
\* and in another letter case, prohibited content, a claim to be human,
\* harmless text and whitespace.
FilterPhrases ==
  {"guaranteed approval", "Guaranteed Approval", "no risk", "Happy to help.",
   "That would be discrimination.", "I am human", Whitespace}

FilterTexts == UNION {[1..n -> FilterPhrases] : n \in 0..MaxFilterLen}

FilterCalls ==
  {[fn |-> "filter_response", response |-> response, pc |-> "call",
    result |-> <<>>] : response \in FilterTexts}

InitFilter == InitAlone /\ fcall \in FilterCalls

FilterResponse ==
  /\ fcall.fn = "filter_response"
  /\ fcall.pc = "call"
  /\ fcall' = [fcall EXCEPT !.pc = "returned",
                            !.result = filter_response(fcall.response)]
  /\ Alone

SpecFilter == InitFilter /\ [][FilterResponse]_vars

\* --------------------------------------------------- context_manager.py
\* A Message of the context: its role, what it is (a system message of
\* build_context, the synthetic summary of _compress_context, or a message
\* of the history) and, for a message of the history, its place in it; for
\* the synthetic summary, how many messages it stands for.
SystemMessage(kind) == [role |-> "system", kind |-> kind, no |-> 0]

HistoryMessage(i) ==
  [role |-> IF i % 2 = 1 THEN "user" ELSE "assistant", kind |-> "history", no |-> i]

\* s[a:b] of Python for 0 <= a and any b (negative: from the end).
Slice(s, a, b) ==
  LET stop == IF b < 0 THEN (IF Len(s) + b < 0 THEN 0 ELSE Len(s) + b)
              ELSE (IF b > Len(s) THEN Len(s) ELSE b)
  IN IF a >= stop THEN <<>> ELSE SubSeq(s, a + 1, stop)

\* _estimate_tokens, every message `chars` characters long.
_estimate_tokens(messages, chars) == (Len(messages) * chars) \div CharsPerToken

\* A compression that adds no summary message.
compress_context_no_summary(messages) ==
  SelectSeq(messages, LAMBDA m : m.role = "system") \o LastN(messages, KeepRecent)

_compress_context(messages) ==
  LET system_msgs == SelectSeq(messages, LAMBDA m : m.role = "system")
      recent_msgs == LastN(messages, KeepRecent)
      middle_msgs == Slice(messages, Len(system_msgs), 0 - KeepRecent)
  IN IF middle_msgs # <<>>
     THEN system_msgs
          \o <<[role |-> "system", kind |-> "compressed", no |-> Len(middle_msgs)]>>
          \o recent_msgs
     ELSE system_msgs \o recent_msgs

\* The system messages build_context puts first.
SystemMessages(context_summary, customer_profile, policies) ==
  (IF context_summary THEN <<SystemMessage("summary")>> ELSE <<>>)
  \o (IF customer_profile THEN <<SystemMessage("profile")>> ELSE <<>>)
  \o (IF policies THEN <<SystemMessage("policies")>> ELSE <<>>)

\* build_context: whether the session has a context summary, the profile
\* and the policy list are non-empty, and the history.
build_context(context_summary, customer_profile, policies, message_history, chars) ==
  LET recent_messages == IF message_history # <<>>
                         THEN LastN(message_history, MAX_CONTEXT_MESSAGES)
                         ELSE <<>>
      messages == SystemMessages(context_summary, customer_profile, policies)
                  \o recent_messages
  IN IF _estimate_tokens(messages, chars) > MAX_CONTEXT_TOKENS
     THEN _compress_context(messages)
     ELSE messages

\* The lengths a message may have, in characters.
MessageChars == {40, 4000}

ContextCalls ==
  {[fn |-> "build_context", context_summary |-> cs, customer_profile |-> cp,
    policies |-> po, history |-> h, chars |-> chars, pc |-> "call",
    result |-> <<>>] :
     cs \in BOOLEAN, cp \in BOOLEAN, po \in BOOLEAN, h \in 0..MaxHistory,
     chars \in MessageChars}

InitContext == InitAlone /\ fcall \in ContextCalls

BuildContext ==
  /\ fcall.fn = "build_context"
  /\ fcall.pc = "call"
  /\ fcall' = [fcall EXCEPT
                 !.pc = "returned",
                 !.result = build_context(fcall.context_summary,
                                          fcall.customer_profile, fcall.policies,
                                          [i \in 1..fcall.history |-> HistoryMessage(i)],
                                          fcall.chars)]
  /\ Alone

SpecContext == InitContext /\ [][BuildContext]_vars

\* _compress_context called on its own, on a message list as build_context
\* makes them: some of the three system messages, then the history.
SystemKinds == <<"summary", "profile", "policies">>

ContextMessages(system, history) ==
  [i \in 1..system |-> SystemMessage(SystemKinds[i])]
  \o [i \in 1..history |-> HistoryMessage(i)]

CompressCalls ==
  {[fn |-> "_compress_context", system |-> sys, history |-> h, pc |-> "call",
    result |-> <<>>] : sys \in 0..Len(SystemKinds), h \in 0..MaxHistory}

InitCompress == InitAlone /\ fcall \in CompressCalls

CompressContext ==
  /\ fcall.fn = "_compress_context"
  /\ fcall.pc = "call"
  /\ fcall' = [fcall EXCEPT
                 !.pc = "returned",
                 !.result = _compress_context(ContextMessages(fcall.system,
                                                              fcall.history))]
  /\ Alone

SpecCompress == InitCompress /\ [][CompressContext]_vars

\* ------------------------- the history of a general-generation turn
\* The messages table of a conversation holding n rows, oldest first.
MessagesTable(n) == [i \in 1..n |-> HistoryMessage(i)]

\* _get_messages: order_by(created_at.asc()).limit(limit)
_get_messages(table, limit) ==
  IF Len(table) <= limit THEN table ELSE SubSeq(table, 1, limit)

\* _get_message_history_for_context: _get_messages with limit=50, the rows
\* as dicts in the same order.
HistoryLimit == 50

_get_message_history_for_context(table) == _get_messages(table, HistoryLimit)

\* process_message, step 9: the profile dict is never empty, the session of
\* the model has no context summary and the policy service no policies.
HistoryCalls ==
  {[fn |-> "_get_message_history_for_context", rows |-> n, chars |-> chars,
    pc |-> "call", result |-> <<>>] : n \in 0..MaxHistory, chars \in MessageChars}

InitHistory == InitAlone /\ fcall \in HistoryCalls

ContextOfTurn ==
  /\ fcall.fn = "_get_message_history_for_context"
  /\ fcall.pc = "call"
  /\ LET message_history ==
           _get_message_history_for_context(MessagesTable(fcall.rows))
     IN fcall' = [fcall EXCEPT
                    !.pc = "returned",
                    !.result = build_context(FALSE, TRUE, FALSE, message_history,
                                             fcall.chars)]
  /\ Alone

SpecHistory == InitHistory /\ [][ContextOfTurn]_vars

\* ------------------------------------- _determine_stage called on its own
\* Any SessionState the store may hold and any Intent of the enumeration.
StageStates ==
  {[SessionState EXCEPT !.conversation_stage = stage,
                        !.interest_level = interest,
                        !.collected_data = data,
                        !.customer_profile =
                           [CustomerProfile EXCEPT !.age = age, !.purpose = purpose]] :
     stage \in ConversationStage, interest \in InterestLevel,
     data \in {CollectedData, Partial, Complete},
     age \in {None, Value}, purpose \in {None, Value}}

StageCalls ==
  {[fn |-> "_determine_stage", state |-> state, intent |-> intent,
    pc |-> "call", result |-> None] : state \in StageStates, intent \in Intent}

InitStage == InitAlone /\ fcall \in StageCalls

DetermineStage ==
  /\ fcall.fn = "_determine_stage"
  /\ fcall.pc = "call"
  /\ fcall' = [fcall EXCEPT !.pc = "returned",
                            !.result = _determine_stage(fcall.state, fcall.intent)]
  /\ Alone

SpecStage == InitStage /\ [][DetermineStage]_vars

\* ------------------------- the reply-generation step and the LLM backend
\* process_message, step 9: retry_service.retry_with_backoff around
\* llm_provider.generate_response, which itself runs the POST to the backend
\* through a RetryService of its own that retries timeouts only and raises
\* LLMAPIError when it gives up.  The backend fails its next `fails`
\* requests, with a timeout or with another error (an HTTP status).
\*   attempt, provider_attempt   the rounds of the two for loops
\*   requests                    POSTs sent to the backend
GenerationCalls ==
  {[fn |-> "_generate_llm_response", fails |-> fails, timeout |-> timeout,
    attempt |-> 1, provider_attempt |-> 1, requests |-> 0, pc |-> "post"] :
     fails \in 0..MaxFailures, timeout \in BOOLEAN}

InitGeneration == InitAlone /\ fcall \in GenerationCalls

\* await self.client.post(...); response.raise_for_status(): and what the
\* except clauses of the two retry loops do with a failure.
OllamaPost ==
  /\ fcall.fn = "_generate_llm_response"
  /\ fcall.pc = "post"
  /\ LET provider_raises ==
           \/ ~fcall.timeout
           \/ exhausted(fcall.provider_attempt, provider_max_attempts)
     IN fcall' = [fcall EXCEPT
                    !.requests = @ + 1,
                    !.fails = IF @ > 0 THEN @ - 1 ELSE 0,
                    !.pc = IF fcall.fails = 0 THEN "returned"
                           ELSE IF ~provider_raises THEN "provider_sleep"
                           ELSE IF exhausted(fcall.attempt, max_attempts)
                                THEN "raised"
                           ELSE "sleep"]
  /\ Alone

\* The provider's backoff, then its next POST.
ProviderSleep ==
  /\ fcall.fn = "_generate_llm_response"
  /\ fcall.pc = "provider_sleep"
  /\ fcall' = [fcall EXCEPT !.provider_attempt = @ + 1, !.pc = "post"]
  /\ Alone

\* The orchestrator's backoff, then generate_response is called anew.
OrchestratorSleep ==
  /\ fcall.fn = "_generate_llm_response"
  /\ fcall.pc = "sleep"
  /\ fcall' = [fcall EXCEPT !.attempt = @ + 1, !.provider_attempt = 1,
                            !.pc = "post"]
  /\ Alone

NextGeneration ==
  \/ OllamaPost
  \/ ProviderSleep
  \/ OrchestratorSleep

SpecGeneration == InitGeneration /\ [][NextGeneration]_vars

\* ------------------------------------------------- rate_limiter_service.py
\* check_limit for one (key, limit type), called by NumCallers requests at
\* a time.  Each `await self._redis...` is a point where another request
\* may run and where Redis may drop the key whose TTL has run out.
\*   value, has_ttl   the counter under redis_key (0: no key) and whether
\*                    the key carries an expiry
\*   pc, count        per caller: the await it stands at, and its local count
\*   granted          calls allowed by the counter since the key was created
Callers == 1..NumCallers

LimiterStart ==
  [fn |-> "check_limit", value |-> 0, has_ttl |-> FALSE,
   pc |-> [p \in Callers |-> "idle"], count |-> [p \in Callers |-> 0],
   calls |-> 0, granted |-> 0, denied |-> 0]

InitLimiter == InitAlone /\ fcall = LimiterStart

AtAwait(p, label) == fcall.fn = "check_limit" /\ fcall.pc[p] = label

\* A request enters check_limit.
CheckLimit ==
  \E p \in Callers :
    /\ AtAwait(p, "idle")
    /\ fcall.calls < MaxCalls
    /\ fcall' = [fcall EXCEPT !.pc[p] = "get", !.calls = @ + 1]
    /\ Alone

\* current = await self._redis.get(redis_key); count = int(current) or 0
RedisGet ==
  \E p \in Callers :
    /\ AtAwait(p, "get")
    /\ fcall' = [fcall EXCEPT
                   !.count[p] = fcall.value,
                   !.pc[p] = IF fcall.value >= LimitOfType THEN "ttl" ELSE "incr"]
    /\ Alone

\* ttl = await self._redis.ttl(redis_key); return False, 0, retry_after
RedisTtl ==
  \E p \in Callers :
    /\ AtAwait(p, "ttl")
    /\ fcall' = [fcall EXCEPT !.pc[p] = "idle", !.denied = @ + 1]
    /\ Alone

\* await self._redis.incr(redis_key): INCR creates a missing key, without
\* expiry.  With count > 0 the call returns True at once.
RedisIncr ==
  \E p \in Callers :
    /\ AtAwait(p, "incr")
    /\ fcall' = [fcall EXCEPT
                   !.value = @ + 1,
                   !.has_ttl = IF fcall.value = 0 THEN FALSE ELSE @,
                   !.pc[p] = IF fcall.count[p] = 0 THEN "expire" ELSE "idle",
                   !.granted = IF fcall.count[p] = 0 THEN @ ELSE @ + 1]
    /\ Alone

\* await self._redis.expire(redis_key, window_seconds); return True
RedisExpire ==
  \E p \in Callers :
    /\ AtAwait(p, "expire")
    /\ fcall' = [fcall EXCEPT
                   !.has_ttl = IF fcall.value > 0 THEN TRUE ELSE @,
                   !.pc[p] = "idle",
                   !.granted = @ + 1]
    /\ Alone

\* except Exception: a Redis command fails and the request is let through
\* (remaining = 999); such a call is not one the counter allowed.
RedisFails ==
  \E p \in Callers :
    /\ fcall.fn = "check_limit"
    /\ fcall.pc[p] \in {"get", "ttl", "incr", "expire"}
    /\ fcall' = [fcall EXCEPT !.pc[p] = "idle"]
    /\ Alone

\* The TTL of the key runs out: Redis drops it and a new window begins.
KeyExpires ==
  /\ fcall.fn = "check_limit"
  /\ fcall.value > 0
  /\ fcall.has_ttl
  /\ fcall' = [fcall EXCEPT !.value = 0, !.has_ttl = FALSE, !.granted = 0]
  /\ Alone

NextLimiter ==
  \/ CheckLimit
  \/ RedisGet
  \/ RedisTtl
  \/ RedisIncr
  \/ RedisExpire
  \/ RedisFails
  \/ KeyExpires

SpecLimiter == InitLimiter /\ [][NextLimiter]_vars

\* ------------------------------------------------------------ properties
TypeOK ==
  /\ \A s \in store :
       /\ s.conversation_stage \in ConversationStage
       /\ s.interest_level \in InterestLevel
       /\ s.awaiting_confirmation \in BOOLEAN
       /\ s.confirmation_attempts \in 0..(MaxTurns + 1)
       /\ s.message_count \in 0..MaxTurns
  /\ Cardinality(store) <= 1
  /\ Cardinality(conversations) <= 1
  /\ \A c \in conversations : c.stage \in ConversationStage
  /\ Len(log) <= RecentLimit
  /\ leads \in 0..MaxTurns
  /\ turns \in 0..MaxTurns
  /\ interest_seen \in InterestLevel

\* The stage of the session: that of the stored SessionState and, once the
\* store entry has expired, that of the conversation record.
SessionStage ==
  IF store # {} THEN (CHOOSE s \in store : TRUE).conversation_stage
  ELSE IF conversations # {} THEN (CHOOSE c \in conversations : TRUE).stage
  ELSE None

\* The step is a process_message call that returned.
Turn == last'.op = "message" /\ turns' = turns + 1 /\ last'.error = ""

\* The call just made was a process_message on an existing session.
Answered == last.op = "message" /\ last.path # "unknown"

\* C1: once the stage of a session is Ended it stays Ended, whatever calls
\* follow and also when the store entry expires and the next process_message
\* re-creates the state.
C1_EndedIsTerminal ==
  [][SessionStage = "ended" => SessionStage' = "ended"]_vars

\* The changes of stage the orchestrator's rules allow: to Ended from
\* anywhere, nowhere from Ended, to InformationCollection and
\* ObjectionHandling from any live stage, from Introduction to Qualification
\* or Information, and staying.
Permitted(from, to) ==
  \/ to = "ended"
  \/ /\ from # "ended"
     /\ \/ to = from
        \/ to \in {"information_collection", "objection_handling"}
        \/ from = "introduction" /\ to \in {"qualification", "information"}

\* C2: from start_conversation on, every change of the session's stage from
\* one turn to the next is a permitted one, and no turn taken in
\* Introduction gives Closing, stored or reported.
C2_TransitionsPermitted ==
  [][Turn =>
       /\ Permitted(SessionStage, SessionStage')
       /\ SessionStage = "introduction" =>
            SessionStage' # "closing" /\ last'.stage # "closing"]_vars

\* The exit message was returned with stage Ended, and the stored state and
\* the conversation record are in stage Ended.
ExitDone ==
  /\ last.message = exit_message
  /\ last.stage = "ended"
  /\ \E s \in store : s.conversation_stage = "ended"
  /\ \E c \in conversations : c.stage = "ended"

\* C3, as stated: a turn whose message holds an exit phrase, or whose
\* classified intent is Exit, returns the exit message and leaves the
\* session Ended.
C3_ExitAlways ==
  (Answered /\ last.error = "" /\ last.exit_signal) => ExitDone

\* C3: a turn whose message holds an exit phrase, or whose classified
\* intent is Exit, and that is not answered with a clarification question,
\* returns the exit message and leaves the session Ended.
C3_ExitUnlessClarified ==
  (Answered /\ last.error = "" /\ last.exit_signal /\ last.path # "clarification")
    => ExitDone

C3_Witness ==
  /\ Answered
  /\ last.exit_signal
  /\ last.path = "exit"
  /\ ExitDone

\* C4: a turn that takes the exit path makes no call to the LLM provider
\* after the exit signal has been detected.
C4_NoLLMAfterExit ==
  (Answered /\ last.path = "exit") => ~last.llm_after_exit

\* The texts the orchestrator and its services hold themselves.
CannedReplies ==
  {exit_message, fb_introduction, fb_qualification, fb_information, fb_persuasion,
   fb_objection_handling, fb_information_collection, fb_closing, fb_ended,
   db_error, obj_cost, obj_necessity, obj_complexity, obj_trust, obj_timing,
   obj_comparison, ask_name, ask_phone, ask_nid, ask_address, ask_policy,
   summary_text, saved_reply, saved_ok_reply, corr_ask, corr_which, corr_updated,
   corr_updated_summary, unclear_directive, unclear_plain, cl_pron_ctx,
   cl_vague_ctx, cl_contra, cl_multi, cl_missing}

C6_NeverRaises == Answered => last.error = ""

\* C7: every reply process_message returns is a non-empty text.
C7_ReplyNonEmpty == (Answered /\ last.error = "") => last.message # <<>>

\* The turn was neither an exit nor a clarification.
Handled == Turn /\ last'.path \notin {"exit", "clarification"}

StoredData == {s.collected_data : s \in store}

RetryDone ==
  fcall.fn = "retry_with_backoff" /\ fcall.pc \in {"returned", "raised"}

\* C12: with every error retryable, an operation that fails k < n times is
\* invoked k + 1 times, k delays are waited and its value is returned; one
\* that always fails is invoked n times, n - 1 delays are waited and its
\* error is raised.  Never more than n invocations are made.
C12_RetryCounts ==
  /\ fcall.fn = "retry_with_backoff" => fcall.calls <= fcall.n
  /\ (RetryDone /\ fcall.retryable) =>
        IF fcall.fails < fcall.n
        THEN /\ fcall.pc = "returned"
             /\ fcall.calls = fcall.fails + 1
             /\ fcall.delays = fcall.fails
        ELSE /\ fcall.pc = "raised"
             /\ fcall.calls = fcall.n
             /\ fcall.delays = fcall.n - 1

C12_Witness ==
  /\ RetryDone
  /\ fcall.retryable
  /\ fcall.n = max_attempts
  /\ fcall.fails >= fcall.n
  /\ fcall.pc = "raised"
  /\ fcall.calls = max_attempts
  /\ fcall.delays = max_attempts - 1

\* C13: the output of filter_response holds no blocked phrase, compared
\* without regard to letter case.
C13_NoBlockedPhrase ==
  (fcall.fn = "filter_response" /\ fcall.pc = "returned") =>
    \A k \in DOMAIN BLOCKED_PHRASES : ~Has(fcall.result, BLOCKED_PHRASES[k])

\* The context assembled for the call exceeds the token ceiling.
OverCeiling ==
  LET held == IF fcall.history > MAX_CONTEXT_MESSAGES
              THEN MAX_CONTEXT_MESSAGES ELSE fcall.history
      system == Len(SystemMessages(fcall.context_summary, fcall.customer_profile,
                                   fcall.policies))
  IN (system + held) * fcall.chars >= (MAX_CONTEXT_TOKENS + 1) * CharsPerToken

\* C14: when the assembled context exceeds the token ceiling and the
\* history holds more than 30 messages, build_context returns every system
\* message, one synthetic summary, and the last 30 messages of the history
\* in their order.
C14_CompressedContext ==
  (/\ fcall.fn = "build_context"
   /\ fcall.pc = "returned"
   /\ fcall.history > KeepRecent
   /\ OverCeiling)
  => LET out == fcall.result
     IN /\ SelectSeq(out, LAMBDA m : m.role = "system" /\ m.kind # "compressed")
             = SystemMessages(fcall.context_summary, fcall.customer_profile,
                              fcall.policies)
        /\ Cardinality({i \in DOMAIN out : out[i].kind = "compressed"}) = 1
        /\ SelectSeq(out, LAMBDA m : m.kind = "history")
             = [i \in 1..KeepRecent |->
                  HistoryMessage(fcall.history - KeepRecent + i)]
        /\ Len(out) = Len(SystemMessages(fcall.context_summary,
                                         fcall.customer_profile, fcall.policies))
                      + 1 + KeepRecent

C14_Witness ==
  /\ fcall.fn = "build_context"
  /\ fcall.pc = "returned"
  /\ fcall.history = 60
  /\ fcall.context_summary /\ fcall.customer_profile /\ fcall.policies
  /\ OverCeiling
  /\ Len(fcall.result) = 34

\* C15: a turn in which detect_ambiguity found a contradiction with the
\* recent messages, or several interpretations, is answered with a
\* clarification question.
C15_AlwaysClarified ==
  (/\ Answered
   /\ last.has_contradiction \/ last.has_multiple_interpretations)
  => last.path = "clarification"

StoredProfile == {s.customer_profile : s \in store}

\* C16: a turn on a session in Introduction whose message states the
\* customer's age and purpose, and that is answered as an ordinary turn
\* (no exit, clarification, objection or lead capture), leaves age and
\* purpose set in the stored profile and the stored stage at Qualification
\* or Information.
C16_AgeAndPurposeStored ==
  [][(/\ Turn
      /\ last'.path = "general"
      /\ last'.age_and_purpose
      /\ SessionStage = "introduction")
     => (/\ \A prof \in StoredProfile' : prof.age # None /\ prof.purpose # None
         /\ StoredProfile' # {}
         /\ SessionStage' \in {"qualification", "information"})]_vars

\* C17: every process_message turn that returns a reply has called
\* save_session, which sets the key with a fresh TTL, and has assigned
\* last_activity.
C17_EveryTurnSaves ==
  (Answered /\ last.error = "") => (last.saved /\ last.last_activity)

StageReturned == fcall.fn = "_determine_stage" /\ fcall.pc = "returned"

\* The lead-capture rule applies: interest Medium or High, data incomplete.
CaptureRule(state) ==
  state.interest_level \in {"medium", "high"} /\ ~is_complete(state.collected_data)

\* C18: _determine_stage gives the result of the first rule that applies:
\* Ended stays Ended; else interest Medium or High with incomplete data gives
\* InformationCollection; else intent Objection gives ObjectionHandling; else
\* Introduction gives Information when age and purpose are known and
\* Qualification when not; else the current stage.
C18_FirstMatchingRule ==
  StageReturned =>
    LET state == fcall.state
        stage == state.conversation_stage
        known == /\ state.customer_profile.age # None
                 /\ state.customer_profile.purpose # None
        result == fcall.result
    IN /\ stage = "ended" => result = "ended"
       /\ (stage # "ended" /\ CaptureRule(state)) => result = "information_collection"
       /\ (stage # "ended" /\ ~CaptureRule(state) /\ fcall.intent = "objection")
            => result = "objection_handling"
       /\ (/\ stage = "introduction" /\ ~CaptureRule(state)
           /\ fcall.intent # "objection")
            => result = (IF known THEN "information" ELSE "qualification")
       /\ (/\ stage \notin {"ended", "introduction"} /\ ~CaptureRule(state)
           /\ fcall.intent # "objection")
            => result = stage

\* An objection of a customer with high interest and incomplete data is sent
\* to InformationCollection.
C18_Witness ==
  /\ StageReturned
  /\ fcall.state.conversation_stage = "persuasion"
  /\ fcall.state.interest_level = "high"
  /\ fcall.state.collected_data = Partial
  /\ fcall.intent = "objection"
  /\ fcall.result = "information_collection"
\* C19: after a process_message turn that returned a reply, the stage held
\* in the Session Store for the session is the conversation_stage of the
\* reply.
C19_StoredStageIsReported ==
  (Answered /\ last.error = "")
  => \A s \in store : s.conversation_stage = last.stage
C21_LatestMessagesInContext ==
  (/\ fcall.fn = "_get_message_history_for_context"
   /\ fcall.pc = "returned"
   /\ fcall.rows > 0)
  => LET out == fcall.result
     IN /\ Cardinality({i \in DOMAIN out : out[i].kind = "history"})
             <= MAX_CONTEXT_MESSAGES
        /\ \E i \in DOMAIN out : out[i] = HistoryMessage(fcall.rows)
C23_ClarificationTouchesNothing ==
  [][(Turn /\ last'.path = "clarification" /\ store # {})
     => (store' = store /\ ~last'.generated)]_vars
\* C24: the interest level stored for a session never decreases: the
\* level the Session Store holds is the highest it has held for the session.
C24_InterestNeverDecreases ==
  \A s \in store : InterestRank(s.interest_level) >= InterestRank(interest_seen)
\* C25: within one window (the life of the counter key) check_limit allows
\* at most max_requests calls for the key, however the concurrent calls
\* interleave.
C25_AtMostLimitPerWindow ==
  fcall.fn = "check_limit" => fcall.granted <= LimitOfType

\* C26: the counter key check_limit has written carries an expiry whenever
\* no call stands between its INCR and its EXPIRE.
C26_KeyAlwaysExpires ==
  (/\ fcall.fn = "check_limit"
   /\ fcall.value > 0
   /\ \A p \in Callers : fcall.pc[p] # "expire")
  => fcall.has_ttl
\* C27: the five mandatory fields can be set by turns of process_message: a
\* turn for which extract_information gave a value for each of them leaves
\* the stored collected data complete.
C27_MandatoryFieldsStored ==
  (Answered /\ last.error = "" /\ last.mandatory_extracted)
  => \A s \in store : is_complete(s.collected_data)
\* C28: a process_message turn that raises an error leaves the SessionState
\* of the Session Store as it was before the turn.
C28_ErrorLeavesStore ==
  [][(/\ last'.op = "message"
      /\ turns' = turns + 1
      /\ last'.error # ""
      /\ store # {})
     => store' = store]_vars
\* C29: the list _compress_context returns holds every message of its input
\* at most once and is no longer than the input, whatever the length of
\* the input.
C29_CompressNeverDuplicates ==
  (fcall.fn = "_compress_context" /\ fcall.pc = "returned")
  => LET out == fcall.result
     IN /\ \A i, j \in DOMAIN out : i # j => out[i] # out[j]
        /\ Len(out) <= fcall.system + fcall.history
\* C30: one reply-generation step sends at most max_attempts requests to
\* the LLM backend, the retries of the orchestrator and of the provider
\* counted together.
C30_AtMostThreeRequests ==
  fcall.fn = "_generate_llm_response" => fcall.requests <= max_attempts
====
